---- MODULE Spec2Model ----
(***************************************************************************)
(* Verification model of the kiali backend layer:                          *)
(*   - kubernetes.FilterDeploymentsForService / filterPodsForService       *)
(*     (src/kubernetes/client.go), the topology correlator;                *)
(*   - kubernetes.NewClient / ConfigClient (src/kubernetes/client.go);     *)
(*   - handlers.parseCriteria / checkType / IstioConfigList / SwitchRoute  *)
(*     (src/unnamed/part_001), the listing and route-switch entry points.  *)
(*                                                                         *)
(* Go values are represented as follows.                                   *)
(*   pointer            <<>> (nil) or <<v>> (pointer to v)                 *)
(*   map[string]string  a set of <<key, value>> pairs with distinct keys   *)
(*   slice              a sequence; the nil slice is <<>>                  *)
(*   string (handlers)  a sequence of one-character strings                *)
(*   error              a string; the nil error is ""                      *)
(***************************************************************************)
EXTENDS Integers, Sequences, FiniteSets, TLC

VARIABLES
    s,                \* FilterDeploymentsForService: argument s *v1.Service
    allPods,          \* argument allPods *v1.PodList
    allDepls,         \* argument allDepls *v1beta1.DeploymentList
    serviceSelector,  \* local serviceSelector
    pods,             \* local pods
    deployments,      \* local deployments
    idx,              \* position of the range loop over allDepls.Items
    fpc,              \* control point of FilterDeploymentsForService
    ret,              \* the returned slice
    logged,           \* messages written by log.Errorf
    lNamespace,       \* IstioConfigList: params["namespace"]
    lQuery,           \* query["objects"]: nil when absent, else a pointer to its value
    lObjects,         \* local objects
    lCriteria,        \* local criteria
    lBusinessErr,     \* err of business.Get()
    lCursor,          \* GetIstioConfig: the next category to fetch
    lFetches,         \* GetIstioConfig: the fetches made, <<category, succeeded>>
    lConfig,          \* istioConfig: the categories of the snapshot
    lErr,             \* err of GetIstioConfig
    lResponses,       \* what the handler wrote to the ResponseWriter
    lpc,              \* control point of IstioConfigList
    routeRules,       \* the routing rule stored per namespace, with its version
    sw,               \* the SwitchRoute requests in flight, one record each
    nEnv,             \* NewClient: kiali configuration and process environment
    nConfig,          \* local config (*rest.Config), nil before ConfigClient
    nClient,          \* local client (IstioClient)
    nErr,             \* local err
    nCalls,           \* how often each constructor has been called
    nRet,             \* the returned (*IstioClient, error)
    npc               \* control point of NewClient

fvars == <<s, allPods, allDepls, serviceSelector, pods, deployments, idx, fpc, ret, logged>>
lvars == <<lNamespace, lQuery, lObjects, lCriteria, lBusinessErr, lCursor, lFetches,
           lConfig, lErr, lResponses, lpc>>
svars == <<routeRules, sw>>
nvars == <<nEnv, nConfig, nClient, nErr, nCalls, nRet, npc>>
vars == <<fvars, lvars, svars, nvars>>

----------------------------------------------------------------------------
(* Bounds of the enumerated inputs. *)
MaxPods == 2
MaxDepls == 2
MaxTypes == 2
NumRequests == 2

----------------------------------------------------------------------------
(* Go pointers and errors. *)
Nil == <<>>
Ptr(v) == <<v>>
Deref(p) == p[1]
NoErr == ""

SeqsUpTo(S, n) == UNION { [1..k -> S] : k \in 0..n }

----------------------------------------------------------------------------
(* k8s.io/apimachinery labels: Set, Requirement, Selector.                 *)
(* Label keys and values are opaque, syntactically valid strings.          *)

\* labels.Set.Has
Has(ls, k) == \E p \in ls : p[1] = k

\* labels.Set.Get
Get(ls, k) == IF Has(ls, k) THEN (CHOOSE p \in ls : p[1] = k)[2] ELSE ""

\* selection.Operator values
OpEquals == "="
OpIn == "in"
OpNotIn == "notin"
OpExists == "exists"
OpDoesNotExist == "!"

\* labels.Requirement
Requirement(k, op, vals) == [key |-> k, operator |-> op, values |-> vals]

\* labels.Requirement.Matches
RequirementMatches(r, ls) ==
    CASE r.operator \in {OpEquals, OpIn} -> Has(ls, r.key) /\ Get(ls, r.key) \in r.values
      [] r.operator = OpNotIn -> ~Has(ls, r.key) \/ Get(ls, r.key) \notin r.values
      [] r.operator = OpExists -> Has(ls, r.key)
      [] r.operator = OpDoesNotExist -> ~Has(ls, r.key)
      [] OTHER -> FALSE

\* The three shapes a labels.Selector interface value takes here.
InternalSelector(reqs) == [kind |-> "internalSelector", reqs |-> reqs]
Everything == InternalSelector({})
Nothing == [kind |-> "nothingSelector", reqs |-> {}]
NilSelector == [kind |-> "nil", reqs |-> {}]

\* labels.Selector.Empty: internalSelector is empty when it has no
\* requirement; nothingSelector is never empty.
Empty(sel) == sel.kind = "internalSelector" /\ sel.reqs = {}

\* labels.Selector.Matches: internalSelector matches when every requirement
\* matches (so the empty one matches everything); nothingSelector never does.
Matches(sel, ls) ==
    /\ sel.kind = "internalSelector"
    /\ \A r \in sel.reqs : RequirementMatches(r, ls)

\* labels.Set.AsSelector (labels.SelectorFromSet)
AsSelector(ls) ==
    IF ls = {} THEN InternalSelector({})
    ELSE InternalSelector({ Requirement(p[1], OpEquals, {p[2]}) : p \in ls })

\* meta_v1.LabelSelector and its requirement operators
LabelSelector(ml, me) == [MatchLabels |-> ml, MatchExpressions |-> me]
LabelSelectorRequirement(k, op, vals) == [Key |-> k, Operator |-> op, Values |-> vals]

\* The selection operator a meta_v1 operator is converted to ("" when the
\* operator is none of In, NotIn, Exists, DoesNotExist).
ConvertOperator(op) ==
    CASE op = "In" -> OpIn
      [] op = "NotIn" -> OpNotIn
      [] op = "Exists" -> OpExists
      [] op = "DoesNotExist" -> OpDoesNotExist
      [] OTHER -> ""

\* The error of converting one match expression (labels.NewRequirement's
\* checks on the number of values included).
ExpressionErr(e) ==
    LET op == ConvertOperator(e.Operator) IN
    CASE op = "" -> "is not a valid pod selector operator"
      [] op \in {OpIn, OpNotIn} /\ e.Values = {} -> "for 'in', 'notin' operators, values set can't be empty"
      [] op \in {OpExists, OpDoesNotExist} /\ e.Values # {} -> "values set must be empty for exists and does not exist"
      [] OTHER -> NoErr

\* meta_v1.LabelSelectorAsSelector: (selector, error)
LabelSelectorAsSelector(ps) ==
    IF ps = Nil THEN [sel |-> Nothing, err |-> NoErr]
    ELSE LET l == Deref(ps)
             me == l.MatchExpressions
             bad == { k \in 1..Len(me) : ExpressionErr(me[k]) # NoErr }
         IN  IF Cardinality(l.MatchLabels) + Len(me) = 0
               THEN [sel |-> Everything, err |-> NoErr]
             ELSE IF bad # {}
               THEN [sel |-> NilSelector,
                     err |-> ExpressionErr(me[CHOOSE k \in bad : \A j \in bad : k <= j])]
             ELSE [sel |-> InternalSelector(
                              { Requirement(p[1], OpEquals, {p[2]}) : p \in l.MatchLabels }
                              \cup { Requirement(me[k].Key, ConvertOperator(me[k].Operator), me[k].Values)
                                     : k \in 1..Len(me) }),
                   err |-> NoErr]

----------------------------------------------------------------------------
(* v1.Service, v1.Pod, v1.PodList, v1beta1.Deployment, DeploymentList.     *)
Service(sel) == [Selector |-> sel]
Pod(name, ls) == [Name |-> name, Labels |-> ls]
PodList(items) == [Items |-> items]
Deployment(name, ls, sel) == [Name |-> name, Labels |-> ls, Selector |-> sel]
DeploymentList(items) == [Items |-> items]

----------------------------------------------------------------------------
(* filterPodsForService: the range loop over allPods.Items, appending the  *)
(* pods the selector matches.                                              *)
\* Faulty variant of the loop: it stops at the first pod the selector
\* matches (a stray break).
RECURSIVE filterPodsLoopBreak(_, _, _, _)
filterPodsLoopBreak(selector, items, k, acc) ==
    IF k > Len(items) THEN acc
    ELSE IF Matches(selector, items[k].Labels) THEN Append(acc, items[k])
    ELSE filterPodsLoopBreak(selector, items, k + 1, acc)

RECURSIVE filterPodsLoop(_, _, _, _)
filterPodsLoop(selector, items, k, acc) ==
    IF k > Len(items) THEN acc
    ELSE filterPodsLoop(selector, items, k + 1,
                        IF Matches(selector, items[k].Labels)
                          THEN Append(acc, items[k]) ELSE acc)

filterPodsForService(selector, podList) ==
    filterPodsLoop(selector, Deref(podList).Items, 1, <<>>)

----------------------------------------------------------------------------
(* FilterDeploymentsForService, statement by statement.                    *)

\* Faulty variant of the nil checks: allPods is not checked.
NilArgsNoPods(sv, pl, dl) == sv = Nil \/ dl = Nil

\* if s == nil || allDepls == nil || allPods == nil
NilArgs(sv, pl, dl) == sv = Nil \/ dl = Nil \/ pl = Nil

\* The inner loop over pods dereferences depSelector as soon as it runs once;
\* after a failed conversion depSelector is the nil interface.
PodLoopPanics(depSelector, matched) == depSelector = NilSelector /\ Len(matched) > 0

\* The value of `added` after the inner loop over pods.
PodLoopAdded(depSelector, matched) ==
    \E k \in 1..Len(matched) :
        ~Empty(depSelector) /\ Matches(depSelector, matched[k].Labels)

\* Faulty variant of the fallback: `added` is not consulted.
FallbackAddsAlways(added, svcSelector, d) ==
    ~Empty(svcSelector) /\ Matches(svcSelector, d.Labels)

\* The fallback: if !added, match the service selector with the
\* deployment's own labels.
FallbackAdds(added, svcSelector, d) ==
    ~added /\ ~Empty(svcSelector) /\ Matches(svcSelector, d.Labels)

\* log.Errorf("Invalid label selector: %v", err)
LogInvalidSelector(err) == <<"Invalid label selector", err>>

\* Entry (lines 172-178): the nil checks, the service selector and the
\* pod-matching step. Past the nil checks the three arguments are
\* dereferenced, which panics on a nil pointer.
FilterEnter ==
    /\ fpc = "call"
    /\ IF NilArgs(s, allPods, allDepls)
         THEN /\ fpc' = "returned"
              /\ ret' = <<>>
              /\ UNCHANGED <<serviceSelector, pods, deployments, idx>>
         ELSE IF s = Nil \/ allPods = Nil \/ allDepls = Nil
           THEN /\ fpc' = "panicked"
                /\ UNCHANGED <<serviceSelector, pods, deployments, idx, ret>>
           ELSE /\ serviceSelector' = AsSelector(Deref(s).Selector)
                /\ pods' = filterPodsForService(AsSelector(Deref(s).Selector), allPods)
                /\ deployments' = <<>>
                /\ idx' = 1
                /\ fpc' = "loop"
                /\ ret' = ret
    /\ UNCHANGED <<s, allPods, allDepls, logged>>
    /\ UNCHANGED <<lvars, svars, nvars>>

\* One iteration of the loop over allDepls.Items (lines 179-202).
FilterIterate ==
    /\ fpc = "loop"
    /\ idx <= Len(Deref(allDepls).Items)
    /\ LET d == Deref(allDepls).Items[idx]
           conv == LabelSelectorAsSelector(d.Selector)
           depSelector == conv.sel
       IN  /\ logged' = IF conv.err # NoErr
                          THEN Append(logged, LogInvalidSelector(conv.err))
                          ELSE logged
           /\ IF PodLoopPanics(depSelector, pods)
                THEN /\ fpc' = "panicked"
                     /\ UNCHANGED <<deployments, idx>>
                ELSE LET added == PodLoopAdded(depSelector, pods)
                         afterPods == IF added THEN Append(deployments, d)
                                               ELSE deployments
                     IN  /\ deployments' =
                               IF FallbackAdds(added, serviceSelector, d)
                                 THEN Append(afterPods, d)
                                 ELSE afterPods
                         /\ idx' = idx + 1
                         /\ fpc' = fpc
    /\ UNCHANGED <<s, allPods, allDepls, serviceSelector, pods, ret>>
    /\ UNCHANGED <<lvars, svars, nvars>>

\* return deployments
FilterReturn ==
    /\ fpc = "loop"
    /\ idx > Len(Deref(allDepls).Items)
    /\ ret' = deployments
    /\ fpc' = "returned"
    /\ UNCHANGED <<s, allPods, allDepls, serviceSelector, pods, deployments, idx, logged>>
    /\ UNCHANGED <<lvars, svars, nvars>>

----------------------------------------------------------------------------
(* Inputs of FilterDeploymentsForService: the three tests of the package   *)
(* and an enumeration of small snapshots.                                  *)

PodNames == <<"p1", "p2", "p3", "p4", "p5", "p6">>
DeplNames == <<"d1", "d2", "d3", "d4", "d5", "d6">>

ServiceSelectors ==
    { {}, {<<"foo", "bar">>}, {<<"foo", "bar">>, <<"version", "v1">>} }

PodLabelSets ==
    { {<<"foo", "bar">>, <<"version", "v1">>},
      {<<"foo", "bar">>, <<"version", "v2">>},
      {<<"foo", "bazz">>, <<"version", "v1">>} }

DeplLabelSets == { {}, {<<"foo", "bar">>} }

MalformedSelector ==
    Ptr(LabelSelector({<<"foo", "bar">>},
                      << LabelSelectorRequirement("version", "Bogus", {"v1"}) >>))

DeplSelectors ==
    { Nil,
      Ptr(LabelSelector({}, <<>>)),
      Ptr(LabelSelector({<<"foo", "bar">>, <<"version", "v1">>}, <<>>)),
      Ptr(LabelSelector({<<"foo", "bazz">>, <<"version", "v1">>}, <<>>)),
      Ptr(LabelSelector({<<"foo", "bar">>},
                        << LabelSelectorRequirement("version", "NotIn", {"v1"}) >>)),
      MalformedSelector }

Services == {Nil} \cup { Ptr(Service(sel)) : sel \in ServiceSelectors }

PodLists ==
    {Nil} \cup { Ptr(PodList([k \in 1..Len(ls) |-> Pod(PodNames[k], ls[k])]))
                 : ls \in SeqsUpTo(PodLabelSets, MaxPods) }

DeplLists ==
    {Nil} \cup { Ptr(DeploymentList([k \in 1..Len(ds) |->
                        Deployment(DeplNames[k], ds[k][1], ds[k][2])]))
                 : ds \in SeqsUpTo(DeplLabelSets \X DeplSelectors, MaxDepls) }

\* TestFilterDeploymentsForService
TestService == Ptr(Service({<<"foo", "bar">>}))
TestPods ==
    Ptr(PodList(<< Pod("httpbin-v1", {<<"foo", "bazz">>, <<"version", "v1">>}),
                   Pod("reviews-v1", {<<"foo", "bar">>, <<"version", "v1">>}),
                   Pod("reviews-v2", {<<"foo", "bar">>, <<"version", "v2">>}) >>))
TestDeployments ==
    Ptr(DeploymentList(
        << Deployment("reviews-v1", {},
                      Ptr(LabelSelector({<<"foo", "bar">>, <<"version", "v1">>}, <<>>))),
           Deployment("reviews-v2", {},
                      Ptr(LabelSelector({<<"foo", "bar">>, <<"version", "v2">>}, <<>>))),
           Deployment("httpbin-v1", {},
                      Ptr(LabelSelector({<<"foo", "bazz">>, <<"version", "v1">>}, <<>>))) >>))

\* TestFilterDeploymentsForServiceWithSpecificLabels
SpecificService == Ptr(Service({<<"jaeger-infra", "jaeger-pod">>}))
SpecificPods ==
    Ptr(PodList(<< Pod("jaeger-pod", {<<"jaeger-infra", "jaeger-pod">>, <<"hash", "123456">>}) >>))
SpecificDeployments ==
    Ptr(DeploymentList(
        << Deployment("", {}, Ptr(LabelSelector({<<"jaeger-infra", "jaeger-pod">>}, <<>>))) >>))

\* TestFilterDeploymentsForServiceWithoutPod
WithoutPodService == Ptr(Service({<<"app", "foo">>}))
WithoutPodPods == Ptr(PodList(<<>>))
WithoutPodDeployments ==
    Ptr(DeploymentList(<< Deployment("", {<<"app", "foo">>, <<"hash", "123456">>}, Nil) >>))

FilterInputs ==
    (Services \X PodLists \X DeplLists)
    \cup { <<TestService, TestPods, TestDeployments>>,
           <<SpecificService, SpecificPods, SpecificDeployments>>,
           <<WithoutPodService, WithoutPodPods, WithoutPodDeployments>> }

FilterStart ==
    /\ \E in \in FilterInputs :
          /\ s = in[1]
          /\ allPods = in[2]
          /\ allDepls = in[3]
    /\ serviceSelector = NilSelector
    /\ pods = <<>>
    /\ deployments = <<>>
    /\ idx = 0
    /\ fpc = "call"
    /\ ret = <<>>
    /\ logged = <<>>


----------------------------------------------------------------------------
(* Properties of the topology correlator.                                  *)

Finished == fpc \in {"returned", "panicked"}
Entered == fpc # "call" /\ ~NilArgs(s, allPods, allDepls)
PodItems == Deref(allPods).Items
DeplItems == Deref(allDepls).Items

\* The positions of the pods the service's selector matches.
ServiceMatched ==
    { k \in 1..Len(PodItems) : Matches(AsSelector(Deref(s).Selector), PodItems[k].Labels) }

\* Deployment d has a well-formed, non-empty selector that matches labels ls.
OwnSelectorMatches(d, ls) ==
    LET conv == LabelSelectorAsSelector(d.Selector) IN
    conv.err = NoErr /\ ~Empty(conv.sel) /\ Matches(conv.sel, ls)

OwnsMatchedPod(d) == \E k \in ServiceMatched : OwnSelectorMatches(d, PodItems[k].Labels)
LabelsSatisfyService(d) == Matches(AsSelector(Deref(s).Selector), d.Labels)
Malformed(d) == LabelSelectorAsSelector(d.Selector).err # NoErr
InSeq(x, sq) == \E j \in 1..Len(sq) : sq[j] = x

\* a is b with some elements left out: an order-preserving embedding of the
\* positions of a into the positions of b exists.
IsSubsequence(a, b) ==
    \E f \in [1..Len(a) -> 1..Len(b)] :
        /\ \A i \in 1..Len(a) : a[i] = b[f[i]]
        /\ \A i, j \in 1..Len(a) : i < j => f[i] < f[j]

IsTestFixture == s = TestService /\ allPods = TestPods /\ allDepls = TestDeployments

\* C1: for a non-nil service with a non-empty selector the call includes
\* every deployment whose own non-empty selector matches a pod the service
\* selector matches, and excludes every deployment that matches none of those
\* pods and whose labels do not satisfy the service selector; on the test
\* fixture it returns exactly the first two deployments.
C1_OwnersIncludedOthersExcluded ==
    /\ (Finished /\ ~NilArgs(s, allPods, allDepls) /\ Deref(s).Selector # {}) =>
          \A k \in 1..Len(DeplItems) :
              /\ OwnsMatchedPod(DeplItems[k]) => InSeq(DeplItems[k], ret)
              /\ (~OwnsMatchedPod(DeplItems[k]) /\ ~LabelsSatisfyService(DeplItems[k]))
                    => ~InSeq(DeplItems[k], ret)
    /\ (Finished /\ IsTestFixture) => ret = <<DeplItems[1], DeplItems[2]>>

\* C2: every deployment that matches no service-matched pod but whose own
\* labels satisfy the service's non-empty selector is included (the fallback
\* path), also with an empty pod list and a deployment without selector.
C2_FallbackIncluded ==
    (Finished /\ ~NilArgs(s, allPods, allDepls) /\ Deref(s).Selector # {}) =>
        \A k \in 1..Len(DeplItems) :
            (~OwnsMatchedPod(DeplItems[k]) /\ LabelsSatisfyService(DeplItems[k]))
                => InSeq(DeplItems[k], ret)

\* C3: the pod-matching step returns exactly the pods of the list whose
\* labels the selector matches: every matching pod, no other pod, each once.
C3_PodsExactlyMatched ==
    Entered =>
        /\ \A k \in 1..Len(PodItems) :
              Matches(serviceSelector, PodItems[k].Labels) <=> InSeq(PodItems[k], pods)
        /\ IsSubsequence(pods, PodItems)
        /\ Len(pods) = Cardinality({ k \in 1..Len(PodItems) :
                                        Matches(serviceSelector, PodItems[k].Labels) })

C3_Witness ==
    /\ fpc = "loop"
    /\ Len(pods) >= 1
    /\ Len(pods) < Len(PodItems)
    /\ Deref(s).Selector # {}

\* C4: an empty service selector yields an empty matched-pod set, whatever
\* labels the pods carry.
C4_EmptySelectorMatchesNoPod ==
    (Entered /\ Deref(s).Selector = {}) => pods = <<>>

\* C5: the list built and returned is an order-preserving subsequence of the
\* input deployment list, each input deployment appearing at most once, also
\* for a deployment that qualifies through both paths.
C5_OrderedSubsequenceNoDuplicates ==
    /\ Entered => IsSubsequence(deployments, SubSeq(DeplItems, 1, idx - 1))
    /\ (fpc = "returned" /\ ~NilArgs(s, allPods, allDepls)) =>
          /\ IsSubsequence(ret, DeplItems)
          /\ \A i, j \in 1..Len(ret) : i # j => ret[i] # ret[j]

C5_Witness ==
    /\ fpc = "returned"
    /\ ~NilArgs(s, allPods, allDepls)
    /\ Len(ret) >= 1
    /\ Len(ret) < Len(DeplItems)
    /\ \E k \in 1..Len(DeplItems) :
          /\ OwnsMatchedPod(DeplItems[k])
          /\ LabelsSatisfyService(DeplItems[k])
          /\ InSeq(DeplItems[k], ret)

\* C6: with a nil service, a nil pod list or a nil deployment list, whatever
\* the other two arguments are, the call returns an empty result and neither
\* panics nor logs an error.
C6_NilArgumentsReturnEmpty ==
    (fpc # "call" /\ (s = Nil \/ allPods = Nil \/ allDepls = Nil)) =>
        /\ fpc = "returned"
        /\ ret = <<>>
        /\ logged = <<>>

C6_Witness ==
    /\ fpc = "returned"
    /\ allPods = Nil
    /\ s # Nil
    /\ allDepls # Nil
    /\ Len(DeplItems) > 0

\* C7: a deployment whose own selector is malformed is skipped: it is logged,
\* it is not added to the result, and the remaining deployments are
\* correlated without a crash.
C7_MalformedSkipped ==
    /\ fpc # "panicked"
    /\ (fpc = "returned" /\ ~NilArgs(s, allPods, allDepls)) =>
          /\ \A k \in 1..Len(DeplItems) :
                Malformed(DeplItems[k]) => ~InSeq(DeplItems[k], ret)
          /\ Len(logged) = Cardinality({ k \in 1..Len(DeplItems) : Malformed(DeplItems[k]) })

----------------------------------------------------------------------------
(* handlers: strings are sequences of one-character strings.               *)

UpperChars == <<"A", "B", "C", "D", "E", "F", "G", "H", "I", "J", "K", "L", "M", "N", "O", "P", "Q", "R", "S", "T", "U", "V", "W", "X", "Y", "Z">>
LowerChars == <<"a", "b", "c", "d", "e", "f", "g", "h", "i", "j", "k", "l", "m", "n", "o", "p", "q", "r", "s", "t", "u", "v", "w", "x", "y", "z">>

\* strings.ToLower, character by character
ToLowerChar(c) ==
    IF \E i \in 1..Len(UpperChars) : UpperChars[i] = c
      THEN LowerChars[CHOOSE i \in 1..Len(UpperChars) : UpperChars[i] = c]
      ELSE c
ToLower(str) == [i \in 1..Len(str) |-> ToLowerChar(str[i])]

\* strings.Split(str, ","): the pieces between the separators; a string
\* without separator is its own single piece.
RECURSIVE SplitLoop(_, _, _, _)
SplitLoop(str, i, piece, acc) ==
    IF i > Len(str) THEN Append(acc, piece)
    ELSE IF str[i] = "," THEN SplitLoop(str, i + 1, <<>>, Append(acc, piece))
    ELSE SplitLoop(str, i + 1, Append(piece, str[i]), acc)
Split(str) == SplitLoop(str, 1, <<>>, <<>>)

\* The category names compared by parseCriteria.
RouteRulesName == <<"r", "o", "u", "t", "e", "r", "u", "l", "e", "s">>
DestinationPoliciesName == <<"d", "e", "s", "t", "i", "n", "a", "t", "i", "o", "n", "p", "o", "l", "i", "c", "i", "e", "s">>
VirtualServicesName == <<"v", "i", "r", "t", "u", "a", "l", "s", "e", "r", "v", "i", "c", "e", "s">>
DestinationRulesName == <<"d", "e", "s", "t", "i", "n", "a", "t", "i", "o", "n", "r", "u", "l", "e", "s">>
RulesName == <<"r", "u", "l", "e", "s">>

\* checkType: the range loop returning true at the first equal element.
\* Faulty variant of checkType: an element that ends with the name counts
\* (strings.HasSuffix in place of ==).
RECURSIVE checkTypeLoopSuffix(_, _, _)
checkTypeLoopSuffix(types, name, i) ==
    IF i > Len(types) THEN FALSE
    ELSE IF /\ Len(types[i]) >= Len(name)
            /\ SubSeq(types[i], Len(types[i]) - Len(name) + 1, Len(types[i])) = name
      THEN TRUE
    ELSE checkTypeLoopSuffix(types, name, i + 1)

RECURSIVE checkTypeLoop(_, _, _)
checkTypeLoop(types, name, i) ==
    IF i > Len(types) THEN FALSE
    ELSE IF types[i] = name THEN TRUE
    ELSE checkTypeLoop(types, name, i + 1)
checkType(types, name) == checkTypeLoop(types, name, 1)

\* business.IstioConfigCriteria
IstioConfigCriteria(ns, rr, dp, vs, dr, ru) ==
    [Namespace |-> ns,
     IncludeRouteRules |-> rr,
     IncludeDestinationPolicies |-> dp,
     IncludeVirtualServices |-> vs,
     IncludeDestinationRules |-> dr,
     IncludeRules |-> ru]

\* Faulty variant of parseCriteria: the test for "rules" is missing.
parseCriteriaNoRules(namespace, objects) ==
    LET defaultInclude == objects = <<>>
        types == Split(objects)
    IN  IF defaultInclude
          THEN IstioConfigCriteria(namespace, defaultInclude, defaultInclude,
                                   defaultInclude, defaultInclude, defaultInclude)
          ELSE IstioConfigCriteria(namespace,
                   defaultInclude \/ checkType(types, RouteRulesName),
                   defaultInclude \/ checkType(types, DestinationPoliciesName),
                   defaultInclude \/ checkType(types, VirtualServicesName),
                   defaultInclude \/ checkType(types, DestinationRulesName),
                   defaultInclude)

\* parseCriteria
parseCriteria(namespace, objects) ==
    LET defaultInclude == objects = <<>>
        types == Split(objects)
    IN  IF defaultInclude
          THEN IstioConfigCriteria(namespace, defaultInclude, defaultInclude,
                                   defaultInclude, defaultInclude, defaultInclude)
          ELSE IstioConfigCriteria(namespace,
                   defaultInclude \/ checkType(types, RouteRulesName),
                   defaultInclude \/ checkType(types, DestinationPoliciesName),
                   defaultInclude \/ checkType(types, VirtualServicesName),
                   defaultInclude \/ checkType(types, DestinationRulesName),
                   defaultInclude \/ checkType(types, RulesName))

\* objects := ""; if _, ok := query["objects"]; ok { objects = strings.ToLower(...) }
ObjectsOf(query) == IF query = Nil THEN <<>> ELSE ToLower(Deref(query))

\* http.StatusOK, http.StatusInternalServerError
StatusOK == 200
StatusInternalServerError == 500

\* RespondWithError and RespondWithJSON: one response written to w.
RespondWithError(code, message) ==
    [status |-> code, kind |-> "error", message |-> message, payload |-> Nil]
RespondWithJSON(code, payload) ==
    [status |-> code, kind |-> "json", message |-> "", payload |-> Ptr(payload)]

----------------------------------------------------------------------------
(* business.IstioConfig.GetIstioConfig, the config aggregator: one list    *)
(* call per included category, in a fixed order; the first failing fetch   *)
(* ends the aggregation with an error naming the category and no snapshot. *)

Categories ==
    <<"routerules", "destinationpolicies", "virtualservices", "destinationrules", "rules">>

Included(criteria, cat) ==
    CASE cat = "routerules" -> criteria.IncludeRouteRules
      [] cat = "destinationpolicies" -> criteria.IncludeDestinationPolicies
      [] cat = "virtualservices" -> criteria.IncludeVirtualServices
      [] cat = "destinationrules" -> criteria.IncludeDestinationRules
      [] cat = "rules" -> criteria.IncludeRules

FetchError(cat) == "cannot list " \o cat

AggregatorFetch ==
    /\ lpc = "aggregate"
    /\ lErr = NoErr
    /\ lCursor <= Len(Categories)
    /\ LET cat == Categories[lCursor] IN
       IF ~Included(lCriteria, cat)
         THEN /\ lCursor' = lCursor + 1
              /\ UNCHANGED <<lFetches, lConfig, lErr>>
         ELSE \E ok \in BOOLEAN :
                /\ lFetches' = Append(lFetches, <<cat, ok>>)
                /\ IF ok
                     THEN /\ lConfig' = lConfig \cup {cat}
                          /\ lCursor' = lCursor + 1
                          /\ lErr' = lErr
                     ELSE /\ lConfig' = {}
                          /\ lErr' = FetchError(cat)
                          /\ lCursor' = lCursor
    /\ UNCHANGED <<lNamespace, lQuery, lObjects, lCriteria, lBusinessErr, lResponses, lpc>>
    /\ UNCHANGED <<fvars, svars, nvars>>

----------------------------------------------------------------------------
(* IstioConfigList                                                         *)

\* Lines 45-52: the namespace, the objects parameter and the criteria.
ListParse ==
    /\ lpc = "start"
    /\ lObjects' = ObjectsOf(lQuery)
    /\ lCriteria' = parseCriteria(lNamespace, ObjectsOf(lQuery))
    /\ lpc' = "business"
    /\ UNCHANGED <<lNamespace, lQuery, lBusinessErr, lCursor, lFetches, lConfig, lErr, lResponses>>
    /\ UNCHANGED <<fvars, svars, nvars>>

BusinessErrors == {NoErr, "no kubernetes client"}

\* Lines 55-59: business.Get(), answered with an error response if it fails.
ListGetBusiness ==
    /\ lpc = "business"
    /\ \E e \in BusinessErrors :
          /\ lBusinessErr' = e
          /\ IF e # NoErr
               THEN /\ lResponses' = Append(lResponses,
                          RespondWithError(StatusInternalServerError,
                                           "Services initialization error: " \o e))
                    /\ lpc' = "done"
               ELSE /\ lResponses' = lResponses
                    /\ lpc' = "aggregate"
    /\ UNCHANGED <<lNamespace, lQuery, lObjects, lCriteria, lCursor, lFetches, lConfig, lErr>>
    /\ UNCHANGED <<fvars, svars, nvars>>

\* Faulty variant of the answer: the return after RespondWithError is missing.
ListResponseNoReturn(err, istioConfig) ==
    IF err # NoErr
      THEN << RespondWithError(StatusInternalServerError, err),
              RespondWithJSON(StatusOK, istioConfig) >>
      ELSE << RespondWithJSON(StatusOK, istioConfig) >>

\* Lines 62-68: what the handler writes once GetIstioConfig has returned.
ListResponse(err, istioConfig) ==
    IF err # NoErr
      THEN << RespondWithError(StatusInternalServerError, err) >>
      ELSE << RespondWithJSON(StatusOK, istioConfig) >>

\* Lines 61-68: GetIstioConfig has returned (istioConfig, err).
ListRespond ==
    /\ lpc = "aggregate"
    /\ lErr # NoErr \/ lCursor > Len(Categories)
    /\ lResponses' = lResponses \o ListResponse(lErr, lConfig)
    /\ lpc' = "done"
    /\ UNCHANGED <<lNamespace, lQuery, lObjects, lCriteria, lBusinessErr, lCursor, lFetches,
                   lConfig, lErr>>
    /\ UNCHANGED <<fvars, svars, nvars>>

----------------------------------------------------------------------------
(* Requests of IstioConfigList.                                            *)

Namespaces == {"bookinfo", "istio-system"}

\* The elements an objects parameter is made of: the five names, one of them
\* capitalised, a name that is no category, and the empty element.
TypeElements ==
    { RouteRulesName, DestinationPoliciesName, VirtualServicesName, DestinationRulesName,
      RulesName, <<"R", "u", "l", "e", "s">>, <<"r", "o", "u", "t", "e", "s">>, <<>> }

\* The elements joined with commas.
RECURSIVE Join(_)
Join(elems) ==
    IF Len(elems) = 0 THEN <<>>
    ELSE IF Len(elems) = 1 THEN elems[1]
    ELSE elems[1] \o <<",">> \o Join(Tail(elems))

AllFiveObjects ==
    Join(<< RouteRulesName, DestinationPoliciesName, VirtualServicesName,
            DestinationRulesName, RulesName >>)
AllFiveReversed ==
    Join(<< RulesName, DestinationRulesName, VirtualServicesName,
            DestinationPoliciesName, RouteRulesName >>)

ObjectsValues ==
    { Join(e) : e \in SeqsUpTo(TypeElements, MaxTypes) } \cup {AllFiveObjects, AllFiveReversed}

Queries == {Nil} \cup { Ptr(o) : o \in ObjectsValues }

ListStart ==
    /\ lNamespace \in Namespaces
    /\ lQuery \in Queries
    /\ lObjects = <<>>
    /\ lCriteria = IstioConfigCriteria("", FALSE, FALSE, FALSE, FALSE, FALSE)
    /\ lBusinessErr = NoErr
    /\ lCursor = 1
    /\ lFetches = <<>>
    /\ lConfig = {}
    /\ lErr = NoErr
    /\ lResponses = <<>>
    /\ lpc = "start"

\* The correlator at rest, while the handlers run.
FilterIdle ==
    /\ s = Nil
    /\ allPods = Nil
    /\ allDepls = Nil
    /\ serviceSelector = NilSelector
    /\ pods = <<>>
    /\ deployments = <<>>
    /\ idx = 0
    /\ fpc = "idle"
    /\ ret = <<>>
    /\ logged = <<>>

\* The listing handler at rest, while the correlator runs.
ListIdle ==
    /\ lNamespace = ""
    /\ lQuery = Nil
    /\ lObjects = <<>>
    /\ lCriteria = IstioConfigCriteria("", FALSE, FALSE, FALSE, FALSE, FALSE)
    /\ lBusinessErr = NoErr
    /\ lCursor = 1
    /\ lFetches = <<>>
    /\ lConfig = {}
    /\ lErr = NoErr
    /\ lResponses = <<>>
    /\ lpc = "idle"

----------------------------------------------------------------------------
(* SwitchRoute. The handler is lines 15-41; business.IstioConfig.SwitchRoute *)
(* reads the routing rule of the namespace with its version, computes the  *)
(* switched rule and writes it back expecting the version it read: the     *)
(* write of a rule that changed in between fails with Conflict.            *)

Requests == 1..NumRequests

ConflictError == "Conflict"
InitialVersion == 1
NoRule == [version |-> 0, route |-> ""]
Switched(route) == IF route = "v1" THEN "v2" ELSE "v1"

SwitchQueries == {Nil, Ptr(RouteRulesName)}

\* Lines 16-30: the criteria and business.Get().
SwitchBegin(r) ==
    /\ sw[r].pc = "start"
    /\ \E e \in BusinessErrors :
          sw' = [sw EXCEPT
                   ![r].criteria = parseCriteria(sw[r].namespace, ObjectsOf(sw[r].query)),
                   ![r].responses =
                       IF e # NoErr
                         THEN Append(@, RespondWithError(StatusInternalServerError,
                                            "Services initialization error: " \o e))
                         ELSE @,
                   ![r].pc = IF e # NoErr THEN "done" ELSE "read"]
    /\ UNCHANGED <<routeRules, fvars, lvars, nvars>>

\* business SwitchRoute: read the active rule and its version.
RouteRead(r) ==
    /\ sw[r].pc = "read"
    /\ sw' = [sw EXCEPT ![r].token = routeRules[sw[r].criteria.Namespace],
                        ![r].pc = "write"]
    /\ UNCHANGED <<routeRules, fvars, lvars, nvars>>

\* business SwitchRoute: compute the switched rule and write it back
\* expecting the version read; no second attempt.
RouteWrite(r) ==
    /\ sw[r].pc = "write"
    /\ LET ns == sw[r].criteria.Namespace
           current == routeRules[ns]
           updated == [version |-> sw[r].token.version + 1,
                       route |-> Switched(sw[r].token.route)]
       IN  IF current.version = sw[r].token.version
             THEN /\ routeRules' = [routeRules EXCEPT ![ns] = updated]
                  /\ sw' = [sw EXCEPT ![r].found = current.version,
                                      ![r].attempts = @ + 1,
                                      ![r].applied = TRUE,
                                      ![r].res = updated,
                                      ![r].pc = "respond"]
             ELSE /\ routeRules' = routeRules
                  /\ sw' = [sw EXCEPT ![r].found = current.version,
                                      ![r].attempts = @ + 1,
                                      ![r].err = ConflictError,
                                      ![r].pc = "respond"]
    /\ UNCHANGED <<fvars, lvars, nvars>>

\* Faulty variant of the answer: err is not looked at.
SwitchResponseIgnoringErr(err, res) == << RespondWithJSON(StatusOK, res) >>

\* Lines 34-40: what the handler writes once SwitchRoute has returned.
SwitchResponse(err, res) ==
    IF err # NoErr
      THEN << RespondWithError(StatusInternalServerError, err) >>
      ELSE << RespondWithJSON(StatusOK, res) >>

\* Lines 32-40: SwitchRoute has returned (res, err).
SwitchRespond(r) ==
    /\ sw[r].pc = "respond"
    /\ sw' = [sw EXCEPT ![r].responses = @ \o SwitchResponse(sw[r].err, sw[r].res),
                        ![r].pc = "done"]
    /\ UNCHANGED <<routeRules, fvars, lvars, nvars>>

SwitchRequest(ns, q) ==
    [pc |-> "start", namespace |-> ns, query |-> q,
     criteria |-> IstioConfigCriteria("", FALSE, FALSE, FALSE, FALSE, FALSE),
     token |-> NoRule, found |-> 0, attempts |-> 0, applied |-> FALSE,
     err |-> NoErr, res |-> NoRule, responses |-> <<>>]

SwitchStart ==
    /\ routeRules = [ns \in Namespaces |-> [version |-> InitialVersion, route |-> "v1"]]
    /\ \E nss \in [Requests -> Namespaces], qs \in [Requests -> SwitchQueries] :
          sw = [r \in Requests |-> SwitchRequest(nss[r], qs[r])]

\* No route switch in flight.
SwitchIdle ==
    /\ routeRules = [ns \in Namespaces |-> [version |-> InitialVersion, route |-> "v1"]]
    /\ sw = <<>>

----------------------------------------------------------------------------
(* NewClient and ConfigClient.                                             *)

k8sQPS == 100
k8sBurst == 200

\* rest.Config, as far as NewClient reads and writes it.
RestConfig(host, token, qps, burst) ==
    [Host |-> host, BearerToken |-> token, QPS |-> qps, Burst |-> burst]

\* An API handle (*kube.Clientset, *rest.RESTClient) built from a config.
ApiHandle(group, config) ==
    Ptr([group |-> group, Host |-> config.Host, BearerToken |-> config.BearerToken,
         QPS |-> config.QPS, Burst |-> config.Burst])

\* IstioClient{}
IstioClient(k8s, istioConfigApi, istioNetworkingApi) ==
    [k8s |-> k8s, istioConfigApi |-> istioConfigApi, istioNetworkingApi |-> istioNetworkingApi]

\* net.JoinHostPort, for a host without colon
JoinHostPort(host, port) == host \o ":" \o port

\* The outcomes of ConfigClient: (config, err). In the cluster it is
\* rest.InClusterConfig, which needs the service host and port and reads
\* the service account token; outside, lines 75-83.
ConfigClient(env) ==
    IF env.InCluster
      THEN IF env.host = "" \/ env.port = ""
             THEN { [config |-> Nil, err |-> "unable to load in-cluster configuration"] }
             ELSE { [config |-> Ptr(RestConfig("https://" \o JoinHostPort(env.host, env.port),
                                               "sa-token", 0, 0)),
                     err |-> NoErr],
                    [config |-> Nil, err |-> "cannot read the service account token"] }
      ELSE IF env.host = "" \/ env.port = ""
             THEN { [config |-> Nil,
                     err |-> "unable to load in-cluster configuration, KUBERNETES_SERVICE_HOST and KUBERNETES_SERVICE_PORT must be defined"] }
             ELSE { [config |-> Ptr(RestConfig("http://" \o JoinHostPort(env.host, env.port),
                                               "", 0, 0)),
                     err |-> NoErr] }

\* The errors kube.NewForConfig and rest.RESTClientFor may return.
ConstructorErrors == {NoErr, "invalid transport credentials", "invalid host"}

\* Faulty variant of the failure returns: the client built so far is returned
\* with the error.
FailureReturnPartial(client, err) == [client |-> Ptr(client), err |-> err]

\* return nil, err
FailureReturn(client, err) == [client |-> Nil, err |-> err]

\* return &client, nil
SuccessReturn(client) == [client |-> Ptr(client), err |-> NoErr]

NoReturn == [client |-> Nil, err |-> NoErr]

\* Lines 92-100: ConfigClient, then the QPS and burst of the config.
NewClientConfig ==
    /\ npc = "config"
    /\ \E out \in ConfigClient(nEnv) :
          /\ nErr' = out.err
          /\ nCalls' = [nCalls EXCEPT !.ConfigClient = @ + 1]
          /\ IF out.err # NoErr
               THEN /\ nConfig' = out.config
                    /\ nRet' = FailureReturn(nClient, out.err)
                    /\ npc' = "returned"
               ELSE /\ nConfig' = Ptr([Deref(out.config) EXCEPT !.QPS = k8sQPS,
                                                                !.Burst = k8sBurst])
                    /\ nRet' = nRet
                    /\ npc' = "k8s"
    /\ UNCHANGED <<nEnv, nClient>>
    /\ UNCHANGED <<fvars, lvars, svars>>

\* Lines 102-106: kube.NewForConfig.
NewClientK8s ==
    /\ npc = "k8s"
    /\ \E e \in ConstructorErrors :
          /\ nErr' = e
          /\ nCalls' = [nCalls EXCEPT !.NewForConfig = @ + 1]
          /\ IF e # NoErr
               THEN /\ nRet' = FailureReturn(nClient, e)
                    /\ npc' = "returned"
                    /\ nClient' = nClient
               ELSE /\ nClient' = [nClient EXCEPT !.k8s = ApiHandle("core", Deref(nConfig))]
                    /\ nRet' = nRet
                    /\ npc' = "scheme"
    /\ UNCHANGED <<nEnv, nConfig>>
    /\ UNCHANGED <<fvars, lvars, svars>>

\* Lines 110-124: the scheme of the Istio types; the function given to the
\* scheme builder returns nil, so AddToScheme does.
NewClientScheme ==
    /\ npc = "scheme"
    /\ nErr' = NoErr
    /\ nCalls' = [nCalls EXCEPT !.AddToScheme = @ + 1]
    /\ npc' = "configApi"
    /\ UNCHANGED <<nEnv, nConfig, nClient, nRet>>
    /\ UNCHANGED <<fvars, lvars, svars>>

\* Lines 127-145: the client of the config group; the field is assigned
\* before err is looked at.
NewClientConfigApi ==
    /\ npc = "configApi"
    /\ \E e \in ConstructorErrors :
          LET istioConfigApi == IF e # NoErr THEN Nil
                                ELSE ApiHandle("config.istio.io", Deref(nConfig))
              built == [nClient EXCEPT !.istioConfigApi = istioConfigApi]
          IN  /\ nErr' = e
              /\ nCalls' = [nCalls EXCEPT !.ConfigApi = @ + 1]
              /\ nClient' = built
              /\ IF e # NoErr
                   THEN /\ nRet' = FailureReturn(built, e)
                        /\ npc' = "returned"
                   ELSE /\ nRet' = nRet
                        /\ npc' = "networkingApi"
    /\ UNCHANGED <<nEnv, nConfig>>
    /\ UNCHANGED <<fvars, lvars, svars>>

\* Lines 147-165: the client of the networking group.
NewClientNetworkingApi ==
    /\ npc = "networkingApi"
    /\ \E e \in ConstructorErrors :
          LET istioNetworkingApi == IF e # NoErr THEN Nil
                                    ELSE ApiHandle("networking.istio.io", Deref(nConfig))
              built == [nClient EXCEPT !.istioNetworkingApi = istioNetworkingApi]
          IN  /\ nErr' = e
              /\ nCalls' = [nCalls EXCEPT !.NetworkingApi = @ + 1]
              /\ nClient' = built
              /\ IF e # NoErr
                   THEN /\ nRet' = FailureReturn(built, e)
                        /\ npc' = "returned"
                   ELSE /\ nRet' = nRet
                        /\ npc' = "return"
    /\ UNCHANGED <<nEnv, nConfig>>
    /\ UNCHANGED <<fvars, lvars, svars>>

\* Line 167: return &client, nil
NewClientReturn ==
    /\ npc = "return"
    /\ nRet' = SuccessReturn(nClient)
    /\ npc' = "returned"
    /\ UNCHANGED <<nEnv, nConfig, nClient, nErr, nCalls>>
    /\ UNCHANGED <<fvars, lvars, svars>>

NoCalls ==
    [ConfigClient |-> 0, NewForConfig |-> 0, AddToScheme |-> 0, ConfigApi |-> 0,
     NetworkingApi |-> 0]

\* The environments NewClient is called in.
ServiceHosts == {"", "10.0.0.1", "kubernetes.default.svc"}
ServicePorts == {"", "443", "8443"}
Environments ==
    { [InCluster |-> ic, host |-> h, port |-> p] :
        ic \in BOOLEAN, h \in ServiceHosts, p \in ServicePorts }

NewClientStart ==
    /\ nEnv \in Environments
    /\ nConfig = Nil
    /\ nClient = IstioClient(Nil, Nil, Nil)
    /\ nErr = NoErr
    /\ nCalls = NoCalls
    /\ nRet = NoReturn
    /\ npc = "config"

\* NewClient not called.
NewClientIdle ==
    /\ nEnv = [InCluster |-> FALSE, host |-> "", port |-> ""]
    /\ nConfig = Nil
    /\ nClient = IstioClient(Nil, Nil, Nil)
    /\ nErr = NoErr
    /\ nCalls = NoCalls
    /\ nRet = NoReturn
    /\ npc = "idle"

----------------------------------------------------------------------------
(* Specifications.                                                         *)

FilterInit == FilterStart /\ ListIdle /\ SwitchIdle /\ NewClientIdle
FilterNext == FilterEnter \/ FilterIterate \/ FilterReturn
SpecFilter == FilterInit /\ [][FilterNext]_vars

ListInit == ListStart /\ FilterIdle /\ SwitchIdle /\ NewClientIdle
ListNext == ListParse \/ ListGetBusiness \/ AggregatorFetch \/ ListRespond
SpecList == ListInit /\ [][ListNext]_vars

SwitchInit == SwitchStart /\ FilterIdle /\ ListIdle /\ NewClientIdle
SwitchNext ==
    \E r \in Requests : SwitchBegin(r) \/ RouteRead(r) \/ RouteWrite(r) \/ SwitchRespond(r)
SpecSwitch == SwitchInit /\ [][SwitchNext]_vars

NewClientInit == NewClientStart /\ FilterIdle /\ ListIdle /\ SwitchIdle
NewClientNext ==
    \/ NewClientConfig
    \/ NewClientK8s
    \/ NewClientScheme
    \/ NewClientConfigApi
    \/ NewClientNetworkingApi
    \/ NewClientReturn
SpecNewClient == NewClientInit /\ [][NewClientNext]_vars

----------------------------------------------------------------------------
(* Properties of the listing entry point.                                  *)

AllIncluded(criteria) ==
    /\ criteria.IncludeRouteRules
    /\ criteria.IncludeDestinationPolicies
    /\ criteria.IncludeVirtualServices
    /\ criteria.IncludeDestinationRules
    /\ criteria.IncludeRules

\* C8: the criteria of a request without category subset (objects absent or
\* empty) equal the criteria of a request that lists all five categories, for
\* every namespace; all five include flags are true in both.
C8_DefaultEqualsAllFive ==
    lpc \notin {"idle", "start"} =>
        /\ (lQuery = Nil \/ lObjects = <<>>) =>
              /\ lCriteria = parseCriteria(lNamespace, AllFiveObjects)
              /\ lCriteria.Namespace = lNamespace
              /\ AllIncluded(lCriteria)
        /\ (lObjects \in {AllFiveObjects, AllFiveReversed}) =>
              /\ lCriteria = parseCriteria(lNamespace, <<>>)
              /\ lCriteria.Namespace = lNamespace
              /\ AllIncluded(lCriteria)

C8_Witness ==
    /\ lpc = "done"
    /\ lQuery = Nil
    /\ AllIncluded(lCriteria)
    /\ lCriteria = parseCriteria(lNamespace, AllFiveObjects)
    /\ Len(lResponses) = 1
    /\ lResponses[1].kind = "json"
    /\ lResponses[1].payload = Ptr({ Categories[i] : i \in 1..Len(Categories) })

FailedFetches == { i \in 1..Len(lFetches) : ~lFetches[i][2] }

\* C9: a listing request never returns a partial snapshot. If the fetch of an
\* included category fails, the handler answers with a single failure naming
\* that category and sends no snapshot; a snapshot is sent only when every
\* included category was fetched.
C9_NoPartialSnapshot ==
    /\ Len(lResponses) <= 1
    /\ lpc = "done" => Len(lResponses) = 1
    /\ \A i \in FailedFetches :
          /\ Cardinality(FailedFetches) = 1
          /\ Included(lCriteria, lFetches[i][1])
          /\ lpc = "done" =>
                lResponses = << RespondWithError(StatusInternalServerError,
                                                 FetchError(lFetches[i][1])) >>
    /\ \A r \in 1..Len(lResponses) :
          lResponses[r].kind = "json" =>
              /\ FailedFetches = {}
              /\ \A c \in 1..Len(Categories) :
                    Included(lCriteria, Categories[c]) <=>
                        Categories[c] \in Deref(lResponses[r].payload)
              /\ \A c \in Deref(lResponses[r].payload) :
                    \E i \in 1..Len(lFetches) : lFetches[i] = <<c, TRUE>>

C9_Witness ==
    /\ lpc = "done"
    /\ lFetches = << <<"routerules", TRUE>>, <<"destinationpolicies", TRUE>>,
                     <<"virtualservices", FALSE>> >>
    /\ lResponses = << RespondWithError(StatusInternalServerError,
                                        FetchError("virtualservices")) >>

----------------------------------------------------------------------------
(* Properties of the route-switch entry point.                             *)

Conflicted(r) == sw[r].attempts > 0 /\ sw[r].found # sw[r].token.version

\* C10: route switching is an optimistic read-compute-write. A request whose
\* rule was modified by another request between its read and its write-back
\* has its write fail: it does not overwrite the concurrent change, the
\* handler reports Conflict, and the write is attempted once, never retried.
C10_ConflictReportedNotOverwritten ==
    /\ \A r \in Requests :
          /\ sw[r].attempts <= 1
          /\ Conflicted(r) => (~sw[r].applied /\ sw[r].err = ConflictError)
          /\ sw[r].applied => (sw[r].found = sw[r].token.version /\ sw[r].err = NoErr)
          /\ (sw[r].pc = "done" /\ Conflicted(r)) =>
                sw[r].responses =
                    << RespondWithError(StatusInternalServerError, ConflictError) >>
          /\ (sw[r].pc = "done" /\ sw[r].applied) =>
                sw[r].responses = << RespondWithJSON(StatusOK, sw[r].res) >>
    /\ \A r1, r2 \in Requests :
          (r1 # r2 /\ sw[r1].applied /\ sw[r2].applied
             /\ sw[r1].criteria.Namespace = sw[r2].criteria.Namespace)
          => sw[r1].token.version # sw[r2].token.version
    /\ \A ns \in Namespaces :
          routeRules[ns].version =
              InitialVersion
              + Cardinality({ r \in Requests : sw[r].applied /\ sw[r].criteria.Namespace = ns })

C10_Witness ==
    \E r1, r2 \in Requests :
        /\ r1 # r2
        /\ sw[r1].pc = "done" /\ sw[r2].pc = "done"
        /\ sw[r1].token = sw[r2].token
        /\ sw[r1].applied
        /\ Conflicted(r2)
        /\ sw[r2].responses = << RespondWithError(StatusInternalServerError, ConflictError) >>
        /\ routeRules[sw[r2].namespace] = sw[r1].res

----------------------------------------------------------------------------
(* Properties of parseCriteria.                                            *)

\* name is one of the comma-separated elements of str: it occurs in str
\* between two separators, or between a separator and an end of the string.
IsElement(name, str) ==
    \E i \in 1..Len(str) :
        /\ i = 1 \/ str[i - 1] = ","
        /\ i + Len(name) - 1 <= Len(str)
        /\ SubSeq(str, i, i + Len(name) - 1) = name
        /\ i + Len(name) - 1 = Len(str) \/ str[i + Len(name)] = ","

\* C12: for a non-empty objects parameter, parseCriteria sets a category's
\* include flag exactly when the category's name is, as a whole, one of the
\* comma-separated elements of the parameter ("routerules" alone does not
\* include "rules"); other elements change nothing and the namespace is
\* copied unchanged.
C12_FlagsAreWholeElements ==
    (lpc \notin {"idle", "start"} /\ lObjects # <<>>) =>
        /\ lCriteria.Namespace = lNamespace
        /\ lCriteria.IncludeRouteRules <=> IsElement(RouteRulesName, lObjects)
        /\ lCriteria.IncludeDestinationPolicies <=> IsElement(DestinationPoliciesName, lObjects)
        /\ lCriteria.IncludeVirtualServices <=> IsElement(VirtualServicesName, lObjects)
        /\ lCriteria.IncludeDestinationRules <=> IsElement(DestinationRulesName, lObjects)
        /\ lCriteria.IncludeRules <=> IsElement(RulesName, lObjects)

C12_Witness ==
    /\ lpc = "done"
    /\ lObjects = RouteRulesName \o <<",">> \o <<"r", "o", "u", "t", "e", "s">>
    /\ lCriteria = IstioConfigCriteria(lNamespace, TRUE, FALSE, FALSE, FALSE, FALSE)

----------------------------------------------------------------------------
(* Properties of NewClient.                                                *)

FullyBuilt(client) ==
    /\ client.k8s # Nil
    /\ client.istioConfigApi # Nil
    /\ client.istioNetworkingApi # Nil

\* C11: client construction fails fast. NewClient returns either a client
\* with all three API handles set and a nil error, or a nil client and an
\* error; once a construction step has failed it returns that error at once,
\* never a partially built client, and no step is ever called a second time.
C11_AllHandlesOrNilAndError ==
    /\ npc = "returned" =>
          \/ /\ nRet.client # Nil
             /\ nRet.err = NoErr
             /\ FullyBuilt(Deref(nRet.client))
             /\ nCalls = [ConfigClient |-> 1, NewForConfig |-> 1, AddToScheme |-> 1,
                          ConfigApi |-> 1, NetworkingApi |-> 1]
          \/ /\ nRet.client = Nil
             /\ nRet.err # NoErr
    /\ nErr # NoErr => (npc = "returned" /\ nRet = [client |-> Nil, err |-> nErr])
    /\ npc # "returned" => nRet = NoReturn
    /\ \A c \in DOMAIN nCalls : nCalls[c] <= 1

\* A failure at the last step: two handles are built, nothing is returned.
C11_Witness ==
    /\ npc = "returned"
    /\ nClient.k8s # Nil
    /\ nClient.istioConfigApi # Nil
    /\ nClient.istioNetworkingApi = Nil
    /\ nRet.client = Nil
    /\ nRet.err # NoErr
    /\ nCalls.NetworkingApi = 1

====
